---- MODULE Spec2Model ----
(***************************************************************************)
(* Model of youtube::api::Client (src/src/youtube/api/client.cpp): the     *)
(* per-call configuration resolver, the request builders get/post/del, the *)
(* response handlers registered by async_get/async_post/async_del, the     *)
(* cancellation flag and the destructor that stops the engine and joins    *)
(* the worker thread.                                                      *)
(***************************************************************************)
EXTENDS Integers, Sequences, FiniteSets, TLC

VARIABLES
    config_,      \* Client::Priv::config_
    cancelled_,   \* Client::Priv::cancelled_ (std::atomic<bool>)
    cancel_called,\* history: Client::cancel() has been called on this client
    requests,     \* requests handed to the engine, in submission order
    calls,        \* per call: operation, decoder, promise, engine-side state
    cb,           \* the worker thread's current / most recent callback invocation
    stopped,      \* client_->stop() has been called
    worker_,      \* the worker thread running client_->run()
    dtor,         \* position of ~Priv
    auth_ret,     \* value returned by the most recent authenticated()
    seen,         \* history: what the most recent call found outside the client
    released,     \* calls whose handlers, and with them the promise, are destroyed
    config_mutex_,\* Client::Priv::config_mutex_: the thread holding it, if any
    thr,          \* per caller thread: its position inside get/post/del/authenticated
    pure          \* argument and result of a decoder applied on its own

vars == <<config_, cancelled_, cancel_called, requests, calls, cb, stopped, worker_,
          dtor, auth_ret, seen, released, config_mutex_, thr, pure>>

\* Largest number of elements of `items` in a document given to
\* get_typed_list on its own.
MaxItems == 2

\* Largest number of calls submitted during one client lifetime.
MaxCalls == 1

-----------------------------------------------------------------------------
(* Results of operations that may throw.                                   *)
Ok(v) == [thrown |-> FALSE, v |-> v]
Throw == [thrown |-> TRUE]

-----------------------------------------------------------------------------
(* json::Value, restricted to null, string, object and array values.       *)
JNull == [t |-> "null"]
JString(s) == [t |-> "string", s |-> s]
JObject(f) == [t |-> "object", f |-> f]
JArray(a) == [t |-> "array", a |-> a]

\* Value::operator[](const char*) const: null for an absent member or a
\* null value, a logic error for any value that is not null or an object.
Member(v, name) ==
    IF v.t = "null" THEN Ok(JNull)
    ELSE IF v.t = "object"
         THEN Ok(IF name \in DOMAIN v.f THEN v.f[name] ELSE JNull)
         ELSE Throw

\* Value::asString(): "" for null, the text of a string, a logic error for
\* an array or an object.
asString(v) ==
    IF v.t = "null" THEN Ok("")
    ELSE IF v.t = "string" THEN Ok(v.s) ELSE Throw

\* v[name].asString()
MemberString(v, name) ==
    LET m == Member(v, name) IN IF m.thrown THEN Throw ELSE asString(m.v)

\* Value::size(): elements of an array, members of an object, else 0.
Size(v) ==
    IF v.t = "array" THEN Len(v.a)
    ELSE IF v.t = "object" THEN Cardinality(DOMAIN v.f) ELSE 0

\* Value::operator[](ArrayIndex) const, index in 1..Size(v): only an array
\* can be indexed.
Element(v, i) == IF v.t = "array" THEN Ok(v.a[i]) ELSE Throw

\* An item filed under its own kind even when it is a search result
ResolvedKind_NoUnwrap(item) == MemberString(item, "kind")

\* The kind an item is filed under: item.kind, or item.id.kind for the
\* search-result wrapper.
ResolvedKind(item) ==
    LET kind == MemberString(item, "kind") IN
    IF kind.thrown THEN Throw
    ELSE IF kind.v = "youtube#searchResult"
         THEN LET id == Member(item, "id") IN
              IF id.thrown THEN Throw ELSE MemberString(id.v, "kind")
         ELSE kind

RECURSIVE TypedListFrom(_, _, _, _)
TypedListFrom(filter, data, index, results) ==
    IF index > Size(data) THEN Ok(results)
    ELSE LET item == Element(data, index) IN
         IF item.thrown THEN Throw
         ELSE LET kind == ResolvedKind(item.v) IN
              IF kind.thrown THEN Throw
              ELSE TypedListFrom(filter, data, index + 1,
                     IF kind.v = filter THEN Append(results, item.v) ELSE results)

get_typed_list(filter, root) ==
    LET data == Member(root, "items") IN
    IF data.thrown THEN Throw ELSE TypedListFrom(filter, data.v, 1, <<>>)

\* is_successful without the isNull test
is_successful_NoNull(root) ==
    LET id == MemberString(root, "id") IN
    IF id.thrown THEN Throw
    ELSE IF id.v # "" THEN Ok(TRUE)
    ELSE LET kind == MemberString(root, "kind") IN
         IF kind.thrown THEN Throw
         ELSE Ok(kind.v # "" /\ root.t # "null")

is_successful(root) ==
    IF root.t = "null" THEN Ok(TRUE)
    ELSE LET id == MemberString(root, "id") IN
         IF id.thrown THEN Throw
         ELSE IF id.v # "" THEN Ok(TRUE)
         ELSE LET kind == MemberString(root, "kind") IN
              IF kind.thrown THEN Throw ELSE Ok(kind.v # "")

\* The decoders the public operations pass as func.
Decode(func, root) ==
    IF func = "is_successful" THEN is_successful(root)
    ELSE get_typed_list(func, root)

-----------------------------------------------------------------------------
(* Response bodies.  A text is either a well-formed JSON document or not;  *)
(* a body is empty, a gzip stream of a text, or the text itself.           *)
Text(doc) == [wf |-> TRUE, doc |-> doc]
NoText == [wf |-> FALSE, doc |-> JNull]

\* Json::Reader::parse into a default (null) root; a failed parse leaves it null.
Parse(text) == IF text.wf THEN text.doc ELSE JNull

\* io::gzip_decompressor over the body: gzip_error for anything that is not
\* a gzip stream.
Gunzip(body) == IF body.enc = "gzip" THEN Ok(body.text) ELSE Throw

\* The bytes of the body read as text, without decompression.
Raw(body) == IF body.enc = "identity" THEN body.text ELSE NoText

DocVideos ==
    JObject([kind |-> JString("youtube#videoListResponse"),
             error |-> JString("quotaExceeded"),
             items |-> JArray(<<
                JObject([kind |-> JString("youtube#video"), id |-> JString("v1")]),
                JObject([kind |-> JString("youtube#channel"), id |-> JString("c1")]),
                JObject([kind |-> JString("youtube#searchResult"),
                         id |-> JObject([kind |-> JString("youtube#video")])])>>)])

\* The shape of the remote API's error documents: `error` is an object.
DocApiError == JObject([error |-> JObject([message |-> JString("forbidden")])])

\* A document whose `id` is an object, as in search results, and whose item
\* has an object where its `kind` string is expected.
DocOddTypes ==
    JObject([id |-> JObject([kind |-> JString("youtube#video")]),
             items |-> JArray(<<JObject([kind |-> JObject(<<>>)])>>)])

Texts == {Text(DocVideos), Text(DocApiError), Text(DocOddTypes), Text(JObject(<<>>)), NoText}

Bodies ==
    {[enc |-> "empty", text |-> NoText]}
    \cup [enc : {"gzip", "identity"}, text : Texts]

Statuses == {"ok", "created", "no_content", "not_found"}

Responses == [status : Statuses, body : Bodies]

-----------------------------------------------------------------------------
(* std::promise                                                            *)
NewPromise == [state |-> "unset"]

set_value(prom, v) ==
    IF prom.state = "unset" THEN Ok([state |-> "value", value |-> v]) ELSE Throw

set_exception(prom, e) ==
    IF prom.state = "unset" THEN Ok([state |-> "exception", error |-> e]) ELSE Throw

NetError == [type |-> "core::net::Error"]
GzipError == [type |-> "gzip_error"]
DomainError(what) == [type |-> "domain_error", what |-> what]

\* What the caller's future holds while the promise is unfulfilled and alive.
Pending == [state |-> "pending"]

\* std::promise::~promise on an unfulfilled promise
BrokenPromise == [state |-> "exception", error |-> [type |-> "future_error(broken_promise)"]]

\* The state shared by a promise and its future, seen from the future.
future(prom, destroyed) ==
    IF prom.state # "unset" THEN prom
    ELSE IF destroyed THEN BrokenPromise ELSE Pending

-----------------------------------------------------------------------------
(* The response pipeline: the three on_response lambdas and on_error.  A   *)
(* handler run yields the promise afterwards, the exception that left the  *)
(* handler (if any) and the stages it went through.                        *)
Ran(prom, escaped, did) == [prom |-> prom, escaped |-> escaped, did |-> did]

\* prom->set_value(...) / prom->set_exception(...) as the handler's last statement
Fulfil(prom, set, did) ==
    IF set.thrown THEN Ran(prom, "future_error", did \cup {"set"})
    ELSE Ran(set.v, "none", did \cup {"set"})

\* prom->set_exception(make_exception_ptr(domain_error(root["error"].asString())))
FulfilApiError(prom, root, did) ==
    LET what == MemberString(root, "error") IN
    IF what.thrown THEN Ran(prom, "json_error", did)
    ELSE Fulfil(prom, set_exception(prom, DomainError(what.v)), did)

\* prom->set_value(func(root))
FulfilDecoded(prom, func, root, did) ==
    LET value == Decode(func, root) IN
    IF value.thrown THEN Ran(prom, "decoder_error", did \cup {"decode"})
    ELSE Fulfil(prom, set_value(prom, value.v), did \cup {"decode"})

\* on_error sent through the JSON error path instead of the transport error
OnError_ViaJson(prom) == FulfilApiError(prom, JNull, {"parse", "classify"})

OnError(prom) == Fulfil(prom, set_exception(prom, NetError), {})

GetSucceeded(status) == status = "ok"

PostSucceeded(status) == status \in {"created", "ok", "no_content"}

\* on_response of async_get without the return in the catch block
OnResponseGet_NoReturn(prom, func, response) ==
    LET decompressed == IF response.body.enc # "empty"
                        THEN Gunzip(response.body) ELSE Ok(NoText)
        did0 == IF response.body.enc # "empty" THEN {"gunzip"} ELSE {}
        caught == IF decompressed.thrown
                  THEN Fulfil(prom, set_exception(prom, GzipError), did0)
                  ELSE Ran(prom, "none", did0)
        root == Parse(IF decompressed.thrown THEN NoText ELSE decompressed.v)
        did == caught.did \cup {"parse", "classify"}
    IN  IF ~GetSucceeded(response.status)
        THEN FulfilApiError(caught.prom, root, did)
        ELSE FulfilDecoded(caught.prom, func, root, did)

OnResponseGet(prom, func, response) ==
    LET decompressed == IF response.body.enc # "empty"
                        THEN Gunzip(response.body) ELSE Ok(NoText)
        did0 == IF response.body.enc # "empty" THEN {"gunzip"} ELSE {}
    IN  IF decompressed.thrown
        THEN Fulfil(prom, set_exception(prom, GzipError), did0)
        ELSE LET root == Parse(decompressed.v)
                 did == did0 \cup {"parse", "classify"}
             IN  IF ~GetSucceeded(response.status)
                 THEN FulfilApiError(prom, root, did)
                 ELSE FulfilDecoded(prom, func, root, did)

\* on_response of async_post treating a failed parse as an API error
OnResponsePost_ParseChecked(prom, func, response) ==
    LET text == Raw(response.body)
        did == {"parse", "classify"}
    IN  IF ~PostSucceeded(response.status) \/ ~text.wf
        THEN FulfilApiError(prom, Parse(text), did)
        ELSE FulfilDecoded(prom, func, Parse(text), did)

OnResponsePost(prom, func, response) ==
    LET root == Parse(Raw(response.body))
        did == {"parse", "classify"}
    IN  IF ~PostSucceeded(response.status)
        THEN FulfilApiError(prom, root, did)
        ELSE FulfilDecoded(prom, func, root, did)

OnResponseDel(prom, func, response) ==
    LET root == Parse(Raw(response.body))
        did == {"parse", "classify"}
    IN  IF ~PostSucceeded(response.status)
        THEN FulfilApiError(prom, root, did)
        ELSE FulfilDecoded(prom, func, root, did)

\* progress_report that never looks at the flag
progress_report_Continue(cancelled) == "continue_operation"

\* Client::Priv::progress_report
progress_report(cancelled) ==
    IF cancelled THEN "abort_operation" ELSE "continue_operation"

-----------------------------------------------------------------------------
(* Configuration resolver.                                                 *)
DefaultConfig ==
    [apiroot |-> "https://www.googleapis.com", api_key |-> "API_KEY",
     user_agent |-> "unity-scope-youtube", accept |-> "application/json",
     authenticated |-> FALSE, access_token |-> "",
     client_id |-> "", client_secret |-> ""]

\* An environment variable is a sequence of length 0 (unset) or 1 (its value).
Unset == <<>>

\* A scan without the break: the last authenticated status wins
RECURSIVE ScanStatuses_NoBreak(_, _, _)
ScanStatuses_NoBreak(cfg, statuses, i) ==
    IF i > Len(statuses) THEN cfg
    ELSE IF statuses[i].service_authenticated
         THEN ScanStatuses_NoBreak(
                  [cfg EXCEPT !.authenticated = TRUE,
                              !.access_token = statuses[i].access_token,
                              !.client_id = statuses[i].client_id,
                              !.client_secret = statuses[i].client_secret],
                  statuses, i + 1)
         ELSE ScanStatuses_NoBreak(cfg, statuses, i + 1)

\* The loop over get_service_statuses() with its break at the first
\* authenticated status.
RECURSIVE ScanStatuses(_, _, _)
ScanStatuses(cfg, statuses, i) ==
    IF i > Len(statuses) THEN cfg
    ELSE IF statuses[i].service_authenticated
         THEN [cfg EXCEPT !.authenticated = TRUE,
                          !.access_token = statuses[i].access_token,
                          !.client_id = statuses[i].client_id,
                          !.client_secret = statuses[i].client_secret]
         ELSE ScanStatuses(cfg, statuses, i + 1)

\* update_config without the return under YOUTUBE_SCOPE_IGNORE_ACCOUNTS
resolve_NoReturn(world) ==
    LET rooted == IF world.YOUTUBE_SCOPE_APIROOT # Unset
                  THEN [DefaultConfig EXCEPT !.apiroot = world.YOUTUBE_SCOPE_APIROOT[1]]
                  ELSE DefaultConfig
    IN  [config |-> ScanStatuses(rooted, world.service_statuses, 1),
         queried |-> TRUE]

\* Client::Priv::update_config: the configuration it leaves in config_, given
\* the environment and what the freshly created OnlineAccountClient reports.
resolve(world) ==
    LET fresh == DefaultConfig
        rooted == IF world.YOUTUBE_SCOPE_APIROOT # Unset
                  THEN [fresh EXCEPT !.apiroot = world.YOUTUBE_SCOPE_APIROOT[1]]
                  ELSE fresh
    IN  IF world.YOUTUBE_SCOPE_IGNORE_ACCOUNTS # Unset
        THEN [config |-> rooted, queried |-> FALSE]
        ELSE [config |-> ScanStatuses(rooted, world.service_statuses, 1),
              queried |-> TRUE]

\* The value update_config leaves in config_.
update_config(world) == resolve(world).config

-----------------------------------------------------------------------------
(* Request builders.                                                       *)
\* net_config that appends the API key whatever the configuration
net_config_KeyAlways(cfg, path, parameters) ==
    [header |-> IF cfg.authenticated
                THEN <<<<"Authorization", "Bearer " \o cfg.access_token>>>>
                ELSE <<>>,
     uri |-> [root |-> cfg.apiroot, path |-> path,
              query |-> Append(parameters, <<"key", cfg.api_key>>)]]

\* Client::Priv::net_config, after update_config has produced cfg
net_config(cfg, path, parameters) ==
    [header |-> IF cfg.authenticated
                THEN <<<<"Authorization", "Bearer " \o cfg.access_token>>>>
                ELSE <<>>,
     uri |-> [root |-> cfg.apiroot, path |-> path,
              query |-> IF cfg.authenticated THEN parameters
                        ELSE Append(parameters, <<"key", cfg.api_key>>)]]

\* Client::Priv::get: the request handed to the engine
get(cfg, path, parameters) ==
    LET configuration == net_config(cfg, path, parameters) IN
    [method |-> "HEAD",
     uri |-> configuration.uri,
     header |-> configuration.header \o
                <<<<"Accept", cfg.accept>>,
                  <<"User-Agent", cfg.user_agent \o " (gzip)">>,
                  <<"Accept-Encoding", "gzip">>>>,
     body |-> "", content_type |-> ""]

\* Client::Priv::post
post(cfg, path, parameters, postmsg, content_type) ==
    LET configuration == net_config(cfg, path, parameters) IN
    [method |-> "POST",
     uri |-> configuration.uri,
     header |-> configuration.header \o
                <<<<"User-Agent", cfg.user_agent>>,
                  <<"Content-Type", content_type>>>>,
     body |-> postmsg, content_type |-> content_type]

\* del submitted with the native method
del_Native(cfg, path, parameters) ==
    LET configuration == net_config(cfg, path, parameters) IN
    [method |-> "DELETE",
     uri |-> configuration.uri,
     header |-> configuration.header \o <<<<"User-Agent", cfg.user_agent>>>>,
     body |-> "", content_type |-> ""]

\* Client::Priv::del
del(cfg, path, parameters) ==
    LET configuration == net_config(cfg, path, parameters) IN
    [method |-> "POST",
     uri |-> configuration.uri,
     header |-> configuration.header \o
                <<<<"User-Agent", cfg.user_agent>>,
                  <<"X-HTTP-Method-Override", "DELETE">>>>,
     body |-> "", content_type |-> ""]

-----------------------------------------------------------------------------
(* What a call finds outside the client: the environment and the service   *)
(* statuses a freshly created OnlineAccountClient reports.                 *)
ServiceStatus(authenticated, token, id, secret) ==
    [service_authenticated |-> authenticated, access_token |-> token,
     client_id |-> id, client_secret |-> secret]

StatusLists ==
    { <<>>,
      <<ServiceStatus(FALSE, "stale", "id0", "secret0")>>,
      <<ServiceStatus(FALSE, "stale", "id0", "secret0"),
        ServiceStatus(TRUE, "tokenA", "idA", "secretA"),
        ServiceStatus(TRUE, "tokenB", "idB", "secretB")>>,
      <<ServiceStatus(TRUE, "", "idC", "secretC")>> }

Worlds ==
    [YOUTUBE_SCOPE_APIROOT : {Unset, <<"http://127.0.0.1:8000">>},
     YOUTUBE_SCOPE_IGNORE_ACCOUNTS : {Unset, <<"1">>},
     service_statuses : StatusLists]

\* No override set and no account configured.
PlainWorlds ==
    {[YOUTUBE_SCOPE_APIROOT |-> Unset, YOUTUBE_SCOPE_IGNORE_ACCOUNTS |-> Unset,
      service_statuses |-> <<>>]}

-----------------------------------------------------------------------------
(* State machine.                                                          *)
NoResponse == [status |-> "none", body |-> [enc |-> "empty", text |-> NoText]]

\* Caller threads, and the state of one that is inside no call.
NoThread == "none"
Threads == {"t1", "t2"}
Outside == [pc |-> "outside", op |-> "none", world |-> <<>>]

\* No decoder has been applied on its own.
NotApplied == [fn |-> "none"]

Idle ==
    [call |-> 0, kind |-> "none", response |-> NoResponse, phase |-> "idle",
     next |-> "none", escaped |-> "none", did |-> {}]

Init ==
    /\ config_ = DefaultConfig
    /\ cancelled_ = FALSE
    /\ cancel_called = FALSE
    /\ requests = <<>>
    /\ calls = <<>>
    /\ cb = Idle
    /\ stopped = FALSE
    /\ worker_ = "running"
    /\ dtor = "alive"
    /\ auth_ret = <<>>
    /\ seen = <<>>
    /\ released = {}
    /\ config_mutex_ = NoThread
    /\ thr = [t \in Threads |-> Outside]
    /\ pure = NotApplied

\* What the call's update_config found: the environment it read and whether
\* it created an OnlineAccountClient and asked it for the service statuses.
Found(world) == <<[world |-> world, queried |-> resolve(world).queried]>>

\* A submission that starts the new call with the flag cleared
Submit_ClearsFlag(op, func, cfg, request) ==
    /\ dtor = "alive"
    /\ Len(calls) < MaxCalls
    /\ config_' = cfg
    /\ cancelled_' = FALSE
    /\ requests' = Append(requests, request)
    /\ calls' = Append(calls, [op |-> op, func |-> func, prom |-> NewPromise,
                               engine |-> "inflight",
                               after_cancel |-> cancel_called])
    /\ UNCHANGED <<cancel_called, cb, stopped, worker_, dtor, auth_ret,
                   released, config_mutex_, thr, pure>>

\* The part common to async_get, async_post and async_del: a new promise,
\* the handler bound to it, and the request handed to the engine.
Submit(op, func, cfg, request) ==
    /\ dtor = "alive"
    /\ Len(calls) < MaxCalls
    /\ config_' = cfg
    /\ requests' = Append(requests, request)
    /\ calls' = Append(calls, [op |-> op, func |-> func, prom |-> NewPromise,
                               engine |-> "inflight",
                               after_cancel |-> cancel_called])
    /\ UNCHANGED <<cancelled_, cancel_called, cb, stopped, worker_, dtor, auth_ret,
                   released, config_mutex_, thr, pure>>

async_get(world, path, parameters, func) ==
    LET cfg == update_config(world) IN
    /\ Submit("get", func, cfg, get(cfg, path, parameters))
    /\ seen' = Found(world)

async_post(world, path, parameters, postmsg, content_type, func) ==
    LET cfg == update_config(world) IN
    /\ Submit("post", func, cfg, post(cfg, path, parameters, postmsg, content_type))
    /\ seen' = Found(world)

async_del(world, path, parameters, func) ==
    LET cfg == update_config(world) IN
    /\ Submit("del", func, cfg, del(cfg, path, parameters))
    /\ seen' = Found(world)

\* Client::videos
videos(world) ==
    async_get(world, <<"youtube", "v3", "videos">>,
              <<<<"part", "snippet,statistics">>, <<"id", "v1">>>>,
              "youtube#video")

\* Client::rate
rate(world) ==
    async_post(world, <<"youtube", "v3", "videos", "rate">>,
               <<<<"id", "v1">>, <<"rating", "like">>>>, "", "",
               "is_successful")

\* Client::unSubscribe
unSubscribe(world) ==
    async_del(world, <<"youtube", "v3", "subscriptions">>,
              <<<<"id", "s1">>>>, "is_successful")

\* authenticated() answering from an authenticated configuration it already has
authenticated_Cached(world) ==
    /\ dtor = "alive"
    /\ config_' = IF config_.authenticated THEN config_ ELSE update_config(world)
    /\ auth_ret' = <<config_'.authenticated>>
    /\ seen' = Found(world)
    /\ UNCHANGED <<cancelled_, cancel_called, requests, calls, cb, stopped, worker_, dtor,
                   released, config_mutex_, thr, pure>>

\* Client::authenticated
authenticated(world) ==
    /\ dtor = "alive"
    /\ config_' = update_config(world)
    /\ auth_ret' = <<config_'.authenticated>>
    /\ seen' = Found(world)
    /\ UNCHANGED <<cancelled_, cancel_called, requests, calls, cb, stopped, worker_, dtor,
                   released, config_mutex_, thr, pure>>

\* Client::cancel
cancel ==
    /\ dtor = "alive"
    /\ cancelled_' = TRUE
    /\ cancel_called' = TRUE
    /\ UNCHANGED <<config_, requests, calls, cb, stopped, worker_, dtor, auth_ret, seen, released, config_mutex_, thr, pure>>

(* The engine's worker thread: client_->run() takes one event of one       *)
(* request at a time and invokes the handler registered for it; after      *)
(* stop() it takes no further event and run() returns.  A request whose    *)
(* progress handler asked for abort ends with an error event.              *)
Deliver(i, kind, response) ==
    /\ worker_ = "running"
    /\ ~stopped
    /\ cb.phase # "running"
    /\ \/ calls[i].engine = "inflight"
       \/ calls[i].engine = "aborted" /\ kind = "error"
    /\ cb' = [Idle EXCEPT !.call = i, !.kind = kind, !.response = response,
                          !.phase = "running"]
    /\ UNCHANGED <<config_, cancelled_, cancel_called, requests, calls, stopped, worker_, dtor, auth_ret, seen, released, config_mutex_, thr, pure>>

Returned(ran) == [cb EXCEPT !.phase = "returned", !.escaped = ran.escaped, !.did = ran.did]

\* handler.on_progress: bind(&Client::Priv::progress_report, this, _1)
on_progress ==
    /\ cb.phase = "running"
    /\ cb.kind = "progress"
    /\ LET next == progress_report(cancelled_) IN
       /\ cb' = [cb EXCEPT !.phase = "returned", !.next = next]
       /\ calls' = IF next = "abort_operation"
                   THEN [calls EXCEPT ![cb.call].engine = "aborted"]
                   ELSE calls
    /\ UNCHANGED <<config_, cancelled_, cancel_called, requests, stopped, worker_, dtor, auth_ret, seen, released, config_mutex_, thr, pure>>

Finish(ran) ==
    /\ cb' = Returned(ran)
    /\ calls' = [calls EXCEPT ![cb.call].prom = ran.prom,
                              ![cb.call].engine = "finished"]
    /\ UNCHANGED <<config_, cancelled_, cancel_called, requests, stopped, worker_, dtor, auth_ret, seen, released, config_mutex_, thr, pure>>

\* handler.on_error
on_error ==
    /\ cb.phase = "running"
    /\ cb.kind = "error"
    /\ Finish(OnError(calls[cb.call].prom))

\* handler.on_response as registered by async_get
on_response_get ==
    /\ cb.phase = "running"
    /\ cb.kind = "response"
    /\ calls[cb.call].op = "get"
    /\ Finish(OnResponseGet(calls[cb.call].prom, calls[cb.call].func, cb.response))

\* handler.on_response as registered by async_post
on_response_post ==
    /\ cb.phase = "running"
    /\ cb.kind = "response"
    /\ calls[cb.call].op = "post"
    /\ Finish(OnResponsePost(calls[cb.call].prom, calls[cb.call].func, cb.response))

\* handler.on_response as registered by async_del
on_response_del ==
    /\ cb.phase = "running"
    /\ cb.kind = "response"
    /\ calls[cb.call].op = "del"
    /\ Finish(OnResponseDel(calls[cb.call].prom, calls[cb.call].func, cb.response))

\* client_->run() returns once the engine is stopped and no handler is running
WorkerExit ==
    /\ worker_ = "running"
    /\ stopped
    /\ cb.phase # "running"
    /\ worker_' = "exited"
    /\ UNCHANGED <<config_, cancelled_, cancel_called, requests, calls, cb, stopped, dtor, auth_ret, seen, released, config_mutex_, thr, pure>>

\* ~Priv: client_->stop()
DtorStop ==
    /\ dtor = "alive"
    /\ stopped' = TRUE
    /\ dtor' = "stopping"
    /\ UNCHANGED <<config_, cancelled_, cancel_called, requests, calls, cb, worker_, auth_ret, seen, released, config_mutex_, thr, pure>>

\* ~Priv that does not wait for the worker thread
DtorJoin_NoWait ==
    /\ dtor = "stopping"
    /\ dtor' = "destroyed"
    /\ UNCHANGED <<config_, cancelled_, cancel_called, requests, calls, cb, stopped, worker_, auth_ret, seen, released, config_mutex_, thr, pure>>

\* ~Priv: worker_.join() returns when the thread has ended; the members are
\* destroyed after it
DtorJoin ==
    /\ dtor = "stopping"
    /\ worker_ = "exited"
    /\ dtor' = "destroyed"
    /\ UNCHANGED <<config_, cancelled_, cancel_called, requests, calls, cb, stopped, worker_, auth_ret, seen, released, config_mutex_, thr, pure>>

\* The copies of a call's handler are destroyed, and with the last of them
\* the promise the lambdas captured: the engine drops them once the call's
\* terminal event has been handled, or when it is destroyed with the
\* client's members.  A promise destroyed unfulfilled makes its future
\* ready with future_error(broken_promise).
ReleaseHandlers(i) ==
    /\ i \notin released
    /\ calls[i].engine = "finished" \/ dtor = "destroyed"
    /\ released' = released \cup {i}
    /\ UNCHANGED <<config_, cancelled_, cancel_called, requests, calls, cb, stopped,
                   worker_, dtor, auth_ret, seen, config_mutex_, thr, pure>>

Engine(R) ==
    \/ \E i \in 1..Len(calls) : Deliver(i, "progress", NoResponse)
    \/ \E i \in 1..Len(calls) : Deliver(i, "error", NoResponse)
    \/ \E i \in 1..Len(calls), response \in R : Deliver(i, "response", response)
    \/ on_progress
    \/ on_error
    \/ on_response_get
    \/ on_response_post
    \/ on_response_del
    \/ WorkerExit
    \/ \E i \in 1..Len(calls) : ReleaseHandlers(i)

Destructor == DtorStop \/ DtorJoin

Calls(W) ==
    \/ \E world \in W : videos(world)
    \/ \E world \in W : rate(world)
    \/ \E world \in W : unSubscribe(world)

Caller(W) == Calls(W) \/ \E world \in W : authenticated(world)

Next == Caller(PlainWorlds) \/ cancel \/ Engine(Responses) \/ Destructor

Spec == Init /\ [][Next]_vars

\* The callers alone, over every environment and account state.
NextBuild == Caller(Worlds)

BuildSpec == Init /\ [][NextBuild]_vars

-----------------------------------------------------------------------------
(* Caller threads inside get, post, del and authenticated, one step at a   *)
(* time: take config_mutex_, run update_config, then build and submit the  *)
(* request (or return config_.authenticated) and release the mutex.        *)
ThreadOps == {"get", "post", "del", "authenticated"}

\* Worlds that differ in root and in credential.
ThreadWorlds ==
    {world \in Worlds :
        /\ (world.YOUTUBE_SCOPE_APIROOT = Unset) = (world.YOUTUBE_SCOPE_IGNORE_ACCOUNTS = Unset)
        /\ Len(world.service_statuses) \in {0, 3}}

\* The request get, post or del builds from the configuration it reads.
BuildRequest(op, cfg) ==
    CASE op = "get" -> get(cfg, <<"youtube", "v3", "videos">>, <<<<"id", "v1">>>>)
      [] op = "post" -> post(cfg, <<"youtube", "v3", "videos", "rate">>,
                             <<<<"id", "v1">>>>, "", "")
      [] op = "del" -> del(cfg, <<"youtube", "v3", "subscriptions">>, <<<<"id", "s1">>>>)

\* Calls that are under way and will submit a request.
Submitting == {t \in Threads : thr[t].op \in {"get", "post", "del"}}

\* A thread calls get, post, del or authenticated.
T_Enter(t, op, world) ==
    /\ dtor = "alive"
    /\ thr[t].pc = "outside"
    /\ op # "authenticated" => Len(calls) + Cardinality(Submitting) < MaxCalls
    /\ thr' = [thr EXCEPT ![t] = [pc |-> "lock", op |-> op, world |-> world]]
    /\ UNCHANGED <<config_, cancelled_, cancel_called, requests, calls, cb, stopped,
                   worker_, dtor, auth_ret, seen, released, config_mutex_, pure>>

\* A lock_guard that does not wait for the mutex to be free
T_Lock_NoWait(t) ==
    /\ thr[t].pc = "lock"
    /\ config_mutex_' = t
    /\ thr' = [thr EXCEPT ![t].pc = "update_config"]
    /\ UNCHANGED <<config_, cancelled_, cancel_called, requests, calls, cb, stopped,
                   worker_, dtor, auth_ret, seen, released, pure>>

\* std::lock_guard<std::mutex> lock(config_mutex_)
T_Lock(t) ==
    /\ thr[t].pc = "lock"
    /\ config_mutex_ = NoThread
    /\ config_mutex_' = t
    /\ thr' = [thr EXCEPT ![t].pc = "update_config"]
    /\ UNCHANGED <<config_, cancelled_, cancel_called, requests, calls, cb, stopped,
                   worker_, dtor, auth_ret, seen, released, pure>>

\* update_config(), called first by net_config and by authenticated
T_UpdateConfig(t) ==
    /\ thr[t].pc = "update_config"
    /\ config_' = update_config(thr[t].world)
    /\ seen' = Found(thr[t].world)
    /\ thr' = [thr EXCEPT ![t].pc = IF thr[t].op = "authenticated" THEN "return"
                                    ELSE "build"]
    /\ UNCHANGED <<cancelled_, cancel_called, requests, calls, cb, stopped, worker_,
                   dtor, auth_ret, released, config_mutex_, pure>>

\* The rest of get, post or del: the request is built from config_ and
\* handed to the engine, and the lock_guard goes out of scope.
T_Execute(t) ==
    /\ thr[t].pc = "build"
    /\ requests' = Append(requests, BuildRequest(thr[t].op, config_))
    /\ calls' = Append(calls, [op |-> thr[t].op,
                               func |-> IF thr[t].op = "get" THEN "youtube#video"
                                        ELSE "is_successful",
                               prom |-> NewPromise, engine |-> "inflight",
                               after_cancel |-> cancel_called])
    /\ config_mutex_' = NoThread
    /\ thr' = [thr EXCEPT ![t] = Outside]
    /\ UNCHANGED <<config_, cancelled_, cancel_called, cb, stopped, worker_, dtor,
                   auth_ret, seen, released, pure>>

\* The rest of authenticated: return config_.authenticated.
T_Return(t) ==
    /\ thr[t].pc = "return"
    /\ auth_ret' = <<config_.authenticated>>
    /\ config_mutex_' = NoThread
    /\ thr' = [thr EXCEPT ![t] = Outside]
    /\ UNCHANGED <<config_, cancelled_, cancel_called, requests, calls, cb, stopped,
                   worker_, dtor, seen, released, pure>>

NextThreads ==
    \E t \in Threads :
        \/ \E op \in ThreadOps, world \in ThreadWorlds : T_Enter(t, op, world)
        \/ T_Lock(t)
        \/ T_UpdateConfig(t)
        \/ T_Execute(t)
        \/ T_Return(t)

ThreadSpec == Init /\ [][NextThreads]_vars

-----------------------------------------------------------------------------
(* The decoders applied on their own to a document.                        *)
ItemShapes ==
    { JObject([kind |-> JString("youtube#video"), id |-> JString("v1")]),
      JObject([kind |-> JString("youtube#channel"), id |-> JString("c1")]),
      JObject([kind |-> JString("youtube#searchResult"),
               id |-> JObject([kind |-> JString("youtube#video")])]),
      JObject([kind |-> JString("youtube#searchResult"),
               id |-> JObject([kind |-> JString("youtube#playlist")])]),
      JObject([kind |-> JString("youtube#searchResult")]),
      JObject([id |-> JString("v2")]),
      JObject([kind |-> JObject(<<>>)]) }

ItemLists == UNION {[1..n -> ItemShapes] : n \in 0..MaxItems}

ListRoots ==
    {JNull, JObject(<<>>), JObject([items |-> JNull]),
     JObject([items |-> JString("none")]),
     JObject([items |-> JObject([nextPageToken |-> JString("p2")])])}
    \cup {JObject([kind |-> JString("youtube#searchListResponse"),
                   items |-> JArray(items)]) : items \in ItemLists}

Filters == {"youtube#video", "youtube#channel"}

StatusRoots ==
    {JNull, JObject(<<>>), JArray(<<>>),
     JObject([id |-> JString("s1")]),
     JObject([kind |-> JString("youtube#subscription")]),
     JObject([id |-> JString(""), kind |-> JString("")]),
     JObject([id |-> JString(""), kind |-> JString("youtube#subscription")]),
     JObject([id |-> JNull, kind |-> JNull]),
     JObject([error |-> JString("forbidden")]),
     JObject([id |-> JString("s1"), kind |-> JObject(<<>>)]),
     JObject([id |-> JString(""), kind |-> JObject(<<>>)]),
     JObject([id |-> JObject([videoId |-> JString("v1")]),
              kind |-> JString("youtube#searchResult")])}

Applications ==
    [fn : {"get_typed_list"}, filter : Filters, root : ListRoots, out : {<<>>}]
    \cup [fn : {"is_successful"}, root : StatusRoots, out : {<<>>}]

InitDecoders ==
    /\ config_ = DefaultConfig
    /\ cancelled_ = FALSE
    /\ cancel_called = FALSE
    /\ requests = <<>>
    /\ calls = <<>>
    /\ cb = Idle
    /\ stopped = FALSE
    /\ worker_ = "running"
    /\ dtor = "alive"
    /\ auth_ret = <<>>
    /\ seen = <<>>
    /\ released = {}
    /\ config_mutex_ = NoThread
    /\ thr = [t \in Threads |-> Outside]
    /\ pure \in Applications

Apply_get_typed_list ==
    /\ pure.fn = "get_typed_list"
    /\ pure.out = <<>>
    /\ pure' = [pure EXCEPT !.out = <<get_typed_list(pure.filter, pure.root)>>]
    /\ UNCHANGED <<config_, cancelled_, cancel_called, requests, calls, cb, stopped,
                   worker_, dtor, auth_ret, seen, released, config_mutex_, thr>>

Apply_is_successful ==
    /\ pure.fn = "is_successful"
    /\ pure.out = <<>>
    /\ pure' = [pure EXCEPT !.out = <<is_successful(pure.root)>>]
    /\ UNCHANGED <<config_, cancelled_, cancel_called, requests, calls, cb, stopped,
                   worker_, dtor, auth_ret, seen, released, config_mutex_, thr>>

NextDecoders == Apply_get_typed_list \/ Apply_is_successful

DecoderSpec == InitDecoders /\ [][NextDecoders]_vars

\* Teardown does not look at what a response holds: one success and one
\* failure.
TeardownResponses ==
    [status : {"ok", "not_found"}, body : {[enc |-> "empty", text |-> NoText]}]

NextTeardown ==
    Calls(PlainWorlds) \/ cancel \/ Engine(TeardownResponses) \/ Destructor

\* The worker thread keeps running: a handler it has entered returns, and
\* run() returns once the engine is stopped; the destroying thread goes on
\* as soon as join() can return.
FairSpec ==
    /\ Init /\ [][NextTeardown]_vars
    /\ WF_vars(on_progress \/ on_error \/ on_response_get \/ on_response_post
               \/ on_response_del \/ WorkerExit)
    /\ WF_vars(DtorJoin)

-----------------------------------------------------------------------------
(* Properties.                                                             *)
HeaderValues(request, name) ==
    {request.header[k][2] : k \in {j \in DOMAIN request.header : request.header[j][1] = name}}

QueryValues(request, name) ==
    {request.uri.query[k][2] : k \in {j \in DOMAIN request.uri.query : request.uri.query[j][1] = name}}

\* The handler of a response event has returned.
ResponseHandled == cb.phase = "returned" /\ cb.kind = "response"

\* C1: the promise of every call is fulfilled exactly once: once the engine
\* has delivered the call's response or error event the promise holds a
\* value or an error, and no handler attempts a second fulfilment.
C1_FulfilledExactlyOnce ==
    /\ \A i \in DOMAIN calls :
          calls[i].engine = "finished" => calls[i].prom.state # "unset"
    /\ cb.escaped # "future_error"

\* C2: whenever a response handler has invoked the decoder, the promise is
\* fulfilled with the decoder's value or with the exception it raised, and no
\* exception leaves the handler.
C2_DecoderOutcomeDelivered ==
    (ResponseHandled /\ "decode" \in cb.did) =>
        /\ cb.escaped = "none"
        /\ calls[cb.call].prom.state \in {"value", "exception"}

\* C3: a GET response whose status is not OK, whatever its body, fulfils the
\* promise with a domain_error and does not invoke the decoder.
C3_GetNotOkIsApiError ==
    (ResponseHandled /\ calls[cb.call].op = "get" /\ cb.response.status # "ok") =>
        /\ calls[cb.call].prom.state = "exception"
        /\ calls[cb.call].prom.error.type = "domain_error"
        /\ "decode" \notin cb.did

\* C4: a POST or DELETE response with status Created, OK or NoContent fulfils
\* the promise with the decoder's output; with any other status it fulfils it
\* with a domain_error and does not invoke the decoder.
C4_PostDelStatus ==
    (ResponseHandled /\ calls[cb.call].op \in {"post", "del"}) =>
        IF cb.response.status \in {"created", "ok", "no_content"}
        THEN /\ "decode" \in cb.did
             /\ calls[cb.call].prom.state = "value"
        ELSE /\ "decode" \notin cb.did
             /\ calls[cb.call].prom.state = "exception"
             /\ calls[cb.call].prom.error.type = "domain_error"

\* C5: when the error handler has run for a call, the call's promise holds
\* the transport error, and the handler neither parsed JSON, nor classified
\* a status, nor invoked the decoder.
C5_TransportErrorDirect ==
    (cb.phase = "returned" /\ cb.kind = "error") =>
        /\ calls[cb.call].prom = [state |-> "exception", error |-> NetError]
        /\ cb.did = {"set"}
        /\ cb.escaped = "none"

C5_Witness ==
    /\ cb.phase = "returned"
    /\ cb.kind = "error"
    /\ calls[cb.call].prom.state = "exception"

\* Some public operation submits a call.
SubmitCall == Calls(PlainWorlds)

\* C6: a progress callback that returns after cancel() has been called
\* reports abort_operation, one that returns before any cancel() reports
\* continue_operation, and after cancel() a live client still accepts a new
\* call and hands its request to the engine.
C6_CancelAborts ==
    /\ [][(cb.phase = "running" /\ cb.kind = "progress" /\ cb'.phase = "returned") =>
            cb'.next = IF cancel_called THEN "abort_operation"
                       ELSE "continue_operation"]_vars
    /\ [][(cancel_called /\ Len(calls') > Len(calls)) =>
            /\ Len(requests') = Len(requests) + 1
            /\ calls'[Len(calls')].engine = "inflight"]_vars
    /\ []((cancel_called /\ dtor = "alive" /\ Len(calls) < MaxCalls) =>
            ENABLED SubmitCall)

C6_Witness ==
    /\ cancel_called
    /\ cb.phase = "returned"
    /\ cb.kind = "progress"
    /\ cb.next = "abort_operation"
    /\ requests # <<>>

\* C7: once the client is destroyed the worker thread has ended and no
\* handler is running, nothing a handler writes changes afterwards, and a
\* destruction that has begun always completes.
C7_DestroyStopsHandlers ==
    /\ [](dtor = "destroyed" => (worker_ = "exited" /\ cb.phase # "running"))
    /\ [][dtor = "destroyed" => UNCHANGED <<cb, calls>>]_vars
    /\ (dtor = "stopping" ~> dtor = "destroyed")

C7_Witness ==
    /\ dtor = "destroyed"
    /\ \E i \in DOMAIN calls : calls[i].prom.state = "unset" /\ calls[i].engine # "finished"

\* C8: every request a call builds carries exactly one credential: under an
\* authenticated configuration the header Authorization: Bearer <token> and
\* no `key` parameter, under an unauthenticated one the `key` parameter with
\* the API key and no Authorization header.
C8_OneCredential ==
    [][Len(requests') > Len(requests) =>
        LET request == requests'[Len(requests')] IN
        IF config_'.authenticated
        THEN /\ HeaderValues(request, "Authorization") = {"Bearer " \o config_'.access_token}
             /\ QueryValues(request, "key") = {}
        ELSE /\ HeaderValues(request, "Authorization") = {}
             /\ QueryValues(request, "key") = {config_'.api_key}]_vars

C8_Witness ==
    /\ requests # <<>>
    /\ config_.authenticated
    /\ HeaderValues(requests[Len(requests)], "Authorization") = {"Bearer tokenA"}

\* C9: every request of the GET path is an HTTP GET carrying the Accept,
\* gzip-suffixed User-Agent and Accept-Encoding: gzip headers.
C9_GetPathIsGet ==
    \A i \in DOMAIN requests :
        calls[i].op = "get" =>
            /\ requests[i].method = "GET"
            /\ HeaderValues(requests[i], "Accept") # {}
            /\ HeaderValues(requests[i], "Accept-Encoding") = {"gzip"}
            /\ \E agent \in HeaderValues(requests[i], "User-Agent") :
                  agent = config_.user_agent \o " (gzip)"

\* C10: a configuration that is authenticated has a non-empty access token.
C10_AuthenticatedHasToken ==
    config_.authenticated => config_.access_token # ""

\* The positions of the statuses a world reports as service_authenticated.
AuthenticatedAt(world) ==
    {i \in DOMAIN world.service_statuses :
        world.service_statuses[i].service_authenticated}

\* The configuration of a client that has seen nothing but this world.
FromScratch(world) ==
    LET usable == IF world.YOUTUBE_SCOPE_IGNORE_ACCOUNTS # Unset THEN {}
                  ELSE AuthenticatedAt(world)
        root == IF world.YOUTUBE_SCOPE_APIROOT # Unset
                THEN world.YOUTUBE_SCOPE_APIROOT[1] ELSE DefaultConfig.apiroot
    IN  IF usable = {} THEN [DefaultConfig EXCEPT !.apiroot = root]
        ELSE LET status == world.service_statuses[
                               CHOOSE i \in usable : \A j \in usable : i <= j]
             IN  [DefaultConfig EXCEPT !.apiroot = root,
                                       !.authenticated = TRUE,
                                       !.access_token = status.access_token,
                                       !.client_id = status.client_id,
                                       !.client_secret = status.client_secret]

\* C11: after every get, post, del or authenticated call the configuration
\* is the one a fresh client would resolve from what that call found, with
\* no field left from an earlier call, and the request the call submits
\* takes its root and its credential from that configuration.
C11_ConfigFromScratch ==
    /\ [](seen # <<>> => config_ = FromScratch(seen[1].world))
    /\ [][Len(requests') > Len(requests) =>
            LET request == requests'[Len(requests')]
                scratch == FromScratch(seen'[1].world)
            IN  /\ request.uri.root = scratch.apiroot
                /\ HeaderValues(request, "Authorization") =
                      IF scratch.authenticated
                      THEN {"Bearer " \o scratch.access_token} ELSE {}
                /\ QueryValues(request, "key") =
                      IF scratch.authenticated THEN {} ELSE {scratch.api_key}]_vars

\* A call made after the credential seen by authenticated() was revoked.
C11_Witness ==
    /\ auth_ret = <<TRUE>>
    /\ requests # <<>>
    /\ seen[1].world.service_statuses # <<>>
    /\ ~config_.authenticated
    /\ config_.access_token = ""
    /\ QueryValues(requests[Len(requests)], "key") = {config_.api_key}

\* C13: a call that finds YOUTUBE_SCOPE_IGNORE_ACCOUNTS set leaves an
\* unauthenticated configuration with no token, client id or secret, does
\* not ask the OnlineAccountClient for statuses, and still applies
\* YOUTUBE_SCOPE_APIROOT when that is set.
C13_IgnoreAccounts ==
    (seen # <<>> /\ seen[1].world.YOUTUBE_SCOPE_IGNORE_ACCOUNTS # Unset) =>
        /\ ~seen[1].queried
        /\ ~config_.authenticated
        /\ config_.access_token = ""
        /\ config_.client_id = ""
        /\ config_.client_secret = ""
        /\ config_.apiroot = IF seen[1].world.YOUTUBE_SCOPE_APIROOT # Unset
                             THEN seen[1].world.YOUTUBE_SCOPE_APIROOT[1]
                             ELSE DefaultConfig.apiroot

\* Both overrides set while an account is authenticated.
C13_Witness ==
    /\ seen # <<>>
    /\ seen[1].world.YOUTUBE_SCOPE_IGNORE_ACCOUNTS # Unset
    /\ seen[1].world.YOUTUBE_SCOPE_APIROOT # Unset
    /\ AuthenticatedAt(seen[1].world) # {}
    /\ requests # <<>>
    /\ requests[Len(requests)].uri.root = "http://127.0.0.1:8000"

\* C18: a call that does not find YOUTUBE_SCOPE_IGNORE_ACCOUNTS set asks the
\* OnlineAccountClient and takes the token, client id and secret of the
\* first status flagged service_authenticated, whatever later statuses
\* hold; when no status is flagged the configuration is unauthenticated and
\* a request of that call carries the API key.
C18_FirstAuthenticatedStatus ==
    /\ [](( seen # <<>> /\ seen[1].world.YOUTUBE_SCOPE_IGNORE_ACCOUNTS = Unset) =>
            LET statuses == seen[1].world.service_statuses IN
            /\ seen[1].queried
            /\ config_.authenticated = (AuthenticatedAt(seen[1].world) # {})
            /\ \A i \in AuthenticatedAt(seen[1].world) :
                  (\A j \in 1..(i - 1) : ~statuses[j].service_authenticated) =>
                      /\ config_.access_token = statuses[i].access_token
                      /\ config_.client_id = statuses[i].client_id
                      /\ config_.client_secret = statuses[i].client_secret)
    /\ [][( /\ Len(requests') > Len(requests)
            /\ seen'[1].world.YOUTUBE_SCOPE_IGNORE_ACCOUNTS = Unset
            /\ AuthenticatedAt(seen'[1].world) = {} ) =>
                /\ ~config_'.authenticated
                /\ QueryValues(requests'[Len(requests')], "key") = {config_'.api_key}
                /\ HeaderValues(requests'[Len(requests')], "Authorization") = {}]_vars

\* Two authenticated statuses after an unauthenticated one: the first of the
\* two is taken.
C18_Witness ==
    /\ seen # <<>>
    /\ seen[1].world.YOUTUBE_SCOPE_IGNORE_ACCOUNTS = Unset
    /\ Cardinality(AuthenticatedAt(seen[1].world)) > 1
    /\ 1 \notin AuthenticatedAt(seen[1].world)
    /\ config_.access_token = "tokenA"

\* C19: every request of the DELETE path is a POST with an empty body, the
\* header X-HTTP-Method-Override: DELETE and the User-Agent without suffix;
\* no request uses the DELETE method, and no request of the POST path
\* carries the override header.
C19_DeleteIsOverriddenPost ==
    \A i \in DOMAIN requests :
        /\ requests[i].method # "DELETE"
        /\ calls[i].op = "del" =>
              /\ requests[i].method = "POST"
              /\ requests[i].body = ""
              /\ HeaderValues(requests[i], "X-HTTP-Method-Override") = {"DELETE"}
              /\ HeaderValues(requests[i], "User-Agent") = {DefaultConfig.user_agent}
        /\ calls[i].op = "post" =>
              HeaderValues(requests[i], "X-HTTP-Method-Override") = {}

C19_Witness ==
    \E i \in DOMAIN requests :
        /\ calls[i].op = "del"
        /\ HeaderValues(requests[i], "X-HTTP-Method-Override") = {"DELETE"}

\* The threads between taking config_mutex_ and releasing it.
InCriticalSection == {t \in Threads : thr[t].pc \in {"update_config", "build", "return"}}

\* C12: with several caller threads, at most one is between rebuilding the
\* configuration and submitting its request, and the request a call
\* submits takes its root, its credential and its headers from the
\* configuration resolved from what that same call found; authenticated
\* likewise returns the flag of the configuration that call resolved.
C12_RebuildAndBuildExclusive ==
    /\ [](Cardinality(InCriticalSection) <= 1)
    /\ [][\A t \in Threads :
            (thr[t].pc = "build" /\ thr'[t].pc = "outside") =>
                LET request == requests'[Len(requests')]
                    own == FromScratch(thr[t].world)
                IN  /\ Len(requests') = Len(requests) + 1
                    /\ request.uri.root = own.apiroot
                    /\ HeaderValues(request, "Authorization") =
                          IF own.authenticated
                          THEN {"Bearer " \o own.access_token} ELSE {}
                    /\ QueryValues(request, "key") =
                          IF own.authenticated THEN {} ELSE {own.api_key}
                    /\ \E agent \in HeaderValues(request, "User-Agent") :
                          agent \in {own.user_agent, own.user_agent \o " (gzip)"}]_vars
    /\ [][\A t \in Threads :
            (thr[t].pc = "return" /\ thr'[t].pc = "outside") =>
                auth_ret' = <<FromScratch(thr[t].world).authenticated>>]_vars

\* One thread holds the mutex with an authenticated configuration in place
\* while another, which found no credential, waits for it.
C12_Witness ==
    /\ thr["t1"].pc = "build"
    /\ config_.authenticated
    /\ thr["t2"].pc = "lock"
    /\ AuthenticatedAt(thr["t2"].world) = {}
    /\ thr["t2"].op \in {"get", "post", "del", "authenticated"}

\* The text of member `name` of a document, "" when the document has no
\* such string.
StringAt(v, name) ==
    IF v.t = "object" /\ name \in DOMAIN v.f /\ v.f[name].t = "string"
    THEN v.f[name].s ELSE ""

\* item.kind, or item.id.kind for a search result.
KindOf(item) ==
    IF StringAt(item, "kind") # "youtube#searchResult" THEN StringAt(item, "kind")
    ELSE IF "id" \in DOMAIN item.f THEN StringAt(item.f["id"], "kind") ELSE ""

\* root.items, empty when the root has no array of that name.
ItemsOf(root) ==
    IF root.t = "object" /\ "items" \in DOMAIN root.f /\ root.f["items"].t = "array"
    THEN root.f["items"].a ELSE <<>>

\* Sub-sequence of items whose kind is the filter, in the original order.
RECURSIVE OfKind(_, _)
OfKind(items, filter) ==
    IF items = <<>> THEN <<>>
    ELSE (IF KindOf(Head(items)) = filter THEN <<Head(items)>> ELSE <<>>)
         \o OfKind(Tail(items), filter)

\* Kinds are strings wherever the document has them, and `items` is an
\* array when it has members.
WellTypedList(root) ==
    /\ root.t \in {"null", "object"}
    /\ root.t = "object" /\ "items" \in DOMAIN root.f =>
          root.f["items"].t \in {"null", "string", "array"}
    /\ \A i \in DOMAIN ItemsOf(root) :
          LET item == ItemsOf(root)[i] IN
          /\ item.t = "object"
          /\ "kind" \in DOMAIN item.f => item.f["kind"].t \in {"null", "string"}
          /\ "id" \in DOMAIN item.f /\ StringAt(item, "kind") = "youtube#searchResult" =>
                /\ item.f["id"].t \in {"null", "object"}
                /\ item.f["id"].t = "object" /\ "kind" \in DOMAIN item.f["id"].f =>
                      item.f["id"].f["kind"].t \in {"null", "string"}

C16_GzipFailureStops ==
    (ResponseHandled /\ calls[cb.call].op = "get") =>
        /\ cb.response.body.enc = "identity" =>
              /\ calls[cb.call].prom = [state |-> "exception", error |-> GzipError]
              /\ cb.did = {"gunzip", "set"}
              /\ cb.escaped = "none"
        /\ cb.response.body.enc = "empty" =>
              /\ "gunzip" \notin cb.did
              /\ calls[cb.call].prom # [state |-> "exception", error |-> GzipError]

\* A plain-text body answered with status OK.
C16_Witness ==
    /\ ResponseHandled
    /\ calls[cb.call].op = "get"
    /\ cb.response.status = "ok"
    /\ cb.response.body.enc = "identity"
    /\ cb.response.body.text = Text(DocVideos)
    /\ calls[cb.call].prom.state = "exception"

\* The text the handler of a call gives to the JSON reader is empty or is
\* not JSON.
NothingToParse ==
    \/ cb.response.body.enc = "empty"
    \/ IF calls[cb.call].op = "get"
       THEN cb.response.body.enc = "gzip" /\ ~cb.response.body.text.wf
       ELSE cb.response.body.enc = "gzip" \/ ~cb.response.body.text.wf

PendingResult(i) == future(calls[i].prom, i \in released)

\* C20 as stated: once the client is destroyed, a handle that has not
\* resolved never resolves.
C20_NeverResolves ==
    [][dtor = "destroyed" =>
        \A i \in DOMAIN calls : PendingResult(i)' = PendingResult(i)]_vars

\* C20: once the client is destroyed no handler fulfils a promise, with a
\* value or with an error; a handle that has not resolved by then stays
\* pending until the call's handlers are dropped and resolves at that point
\* with future_error(broken_promise), never with anything else.
C20_AbandonedOrBroken ==
    [][dtor = "destroyed" =>
        \A i \in DOMAIN calls :
            /\ calls'[i].prom = calls[i].prom
            /\ \/ PendingResult(i)' = PendingResult(i)
               \/ /\ PendingResult(i) = Pending
                  /\ PendingResult(i)' = BrokenPromise]_vars

\* A call still in flight when the client was destroyed, its handlers
\* dropped afterwards.
C20_Witness ==
    /\ dtor = "destroyed"
    /\ \E i \in DOMAIN calls :
          /\ calls[i].engine = "inflight"
          /\ calls[i].prom.state = "unset"
          /\ PendingResult(i) = BrokenPromise

\* The engine has handed a call its terminal event and the handler has
\* returned without a value from the decoder: a transport error, a body
\* that is not gzip, a status that is not a success, or a decoder that threw.
FailureHandled ==
    /\ cb.phase = "returned"
    /\ cb.kind \in {"error", "response"}
    /\ "decode" \notin cb.did \/ cb.escaped # "none"

\* Every call has submitted one request, and only a new call adds one.
C21_OneRequestPerCall ==
    /\ [](Len(requests) = Len(calls))
    /\ [][requests' # requests =>
            /\ Len(calls') = Len(calls) + 1
            /\ Len(requests') = Len(requests) + 1
            /\ SubSeq(requests', 1, Len(requests)) = requests]_vars

\* A call that has finished stays finished with the promise as it was.
C21_FinishedStaysFinished ==
    [][\A i \in DOMAIN calls :
          calls[i].engine = "finished" =>
              /\ calls'[i].engine = "finished"
              /\ calls'[i].prom = calls[i].prom]_vars

\* C21: every call submits exactly one request and no step of the engine
\* or of a handler submits another; once a call has failed (transport
\* error, gzip error, status that is not a success, decoder exception) its
\* promise holds an error, the call is finished, and neither changes again.
C21_NoRetryFailureSurfacedOnce ==
    /\ C21_OneRequestPerCall
    /\ C21_FinishedStaysFinished
    /\ [](FailureHandled =>
            /\ calls[cb.call].engine = "finished"
            /\ calls[cb.call].prom.state = "exception")

\* C22: cancelled_ is false until cancel() is called, true from then on
\* whatever happens (a new call, a response, an error, a finished or an
\* aborted request, authenticated()), and a progress callback of a request
\* submitted after cancel() returns abort_operation, which ends the request:
\* its first progress tick is its last.
C22_FlagMonotone ==
    /\ [](cancelled_ = cancel_called)
    /\ [][cancelled_ => cancelled_']_vars
    /\ [][( /\ cb.phase = "running"
            /\ cb.kind = "progress"
            /\ cb'.phase = "returned"
            /\ calls[cb.call].after_cancel ) =>
                /\ calls[cb.call].engine = "inflight"
                /\ cb'.next = "abort_operation"
                /\ calls'[cb.call].engine = "aborted"]_vars

\* A call submitted after cancel() whose first progress tick aborted it and
\* whose error event has been handled.
C22_Witness ==
    /\ cancelled_
    /\ \E i \in DOMAIN calls :
          /\ calls[i].after_cancel
          /\ calls[i].engine = "finished"
          /\ calls[i].prom = [state |-> "exception", error |-> NetError]
    /\ cb.kind = "error"

====
